---- MODULE Spec2Model ----
(***************************************************************************)
(* A model of the Commit action of fabric-common (lib/Commit.js): one      *)
(* Commit instance, its build / sign / send operations, and the broadcast  *)
(* loop of send with its suspension points.                                *)
(*                                                                         *)
(* Values that JavaScript leaves undefined or null are the record None.    *)
(* Byte buffers are records [buffer |-> fields], where fields is the       *)
(* sequence of <<field number, value>> pairs that protobuf writes: one     *)
(* pair per field that is set, in field-number order.                      *)
(***************************************************************************)
EXTENDS Integers, Sequences, FiniteSets, TLC

VARIABLES
    _endorsement,   \* this._endorsement: the Endorsement Record, or None
    _action,        \* this._action: {} after a reset, {payload} after build
    _payload,       \* this._payload: the bytes to be signed, or None
    _signature,     \* this._signature: the signature over _payload, or None
    sending,        \* the activation of the send call in flight, or None
    last            \* how the most recently completed call ended

vars == <<_endorsement, _action, _payload, _signature, sending, last>>

----
\* Bounds of the model.

\* the longest response sequence of an Endorsement Record
MaxResponses == 2

\* the longest targets list of a send request
MaxTargets == 3

\* the longest targets list of a send request that names a handler
MaxHandlerTargets == 1

----
\* Values.

None == [null |-> TRUE]

SeqsUpTo(S, n) == UNION {[1..k -> S] : k \in 0..n}

\* the status an endorsement response must carry to be kept
SuccessStatus == 200

\* toBuffer(): the fields that are set, in field-number order
toBuffer(fields) ==
    [buffer |-> SelectSeq(fields, LAMBDA f : f[2] # None)]

\* decode(): the value of field number n of a buffer, None when not written
FieldOf(bytes, n) ==
    LET hits == SelectSeq(bytes.buffer, LAMBDA f : f[1] = n)
    IN  IF Len(hits) = 0 THEN None ELSE hits[Len(hits)][2]

\* decode(): the values of the repeated field number n, in the order written
RepeatedOf(bytes, n) ==
    LET hits == SelectSeq(bytes.buffer, LAMBDA f : f[1] = n)
    IN  [i \in 1..Len(hits) |-> hits[i][2]]

\* ChaincodeProposalPayload.decode
DecodeChaincodeProposalPayload(bytes) ==
    [input |-> FieldOf(bytes, 1), TransientMap |-> FieldOf(bytes, 2)]

----
\* The Endorsement Records a caller can hand to the Commit action.

\* The entries of _proposalResponses: a null entry, an entry with no
\* response field, an entry with status 200 and one with another status.
ResponseKinds == {"null", "noresponse", "success", "rejected"}

\* The entry of kind k that arrived i-th: its payload and its endorsement
\* blob are those of the i-th endorser.
ProposalResponse(k, i) ==
    IF k = "null" THEN None
    ELSE [response    |-> CASE k = "noresponse" -> None
                            [] k = "success"    -> [status |-> SuccessStatus]
                            [] OTHER            -> [status |-> 500],
          payload     |-> [responsePayload |-> i],
          endorsement |-> [endorser |-> i]]

TransientMaps == {None, [secret |-> "transient"]}

\* the header captured when the proposal was built
ProposalHeader ==
    [channel_header   |-> [channel |-> "mychannel"],
     signature_header |-> [creator |-> "client", nonce |-> "nonce"]]

\* the proposal captured when the proposal was built; its payload is an
\* encoded ChaincodeProposalPayload: input (1) and TransientMap (2)
ProposalOf(transient) ==
    [payload |-> toBuffer(<< <<1, [args |-> "invoke"]>>, <<2, transient>> >>)]

\* the response sequences of at most MaxResponses entries
ResponseLists ==
    {[responses |-> [i \in DOMAIN ks |-> ProposalResponse(ks[i], i)]] :
        ks \in SeqsUpTo(ResponseKinds, MaxResponses)}

\* A record whose _proposalResponses is None was never sent for endorsement.
Endorsements ==
    {[_proposalResponses |-> r,
      _action |-> [proposal |-> ProposalOf(t), header |-> ProposalHeader]] :
        r \in {None} \cup ResponseLists, t \in TransientMaps}

\* The records the lifecycle is exercised with: one never sent for
\* endorsement, one with no valid response, one with a single valid response
\* and one with a rejected and a valid response.
LifecycleEndorsements ==
    {[_proposalResponses |-> r,
      _action |-> [proposal |-> ProposalOf([secret |-> "transient"]),
                   header   |-> ProposalHeader]] :
        r \in {None,
               [responses |-> << ProposalResponse("rejected", 1) >>],
               [responses |-> << ProposalResponse("success", 1) >>],
               [responses |-> << ProposalResponse("rejected", 1),
                                 ProposalResponse("success", 2) >>]}}

IdentityContexts == {[name |-> "user1"]}

----
\* The errors the calls end with.

MissingIdContext      == "Missing idContext parameter"
MissingEndorsement    == "Missing endorsement parameter"
NotEndorsedError      == "Proposal has not been endorsed"
NoValidEndorsements   == "No valid endorsements found"
NullResponseTypeError == "TypeError: Cannot read property 'payload' of null"
MissingTargets        == "Missing targets parameter"
PayloadNotBuilt       == "The send payload has not been built"
PayloadNotSigned      == "The send payload has not been signed"
TransportError        == "transport error"

PreconditionErrors     == {PayloadNotBuilt, PayloadNotSigned}
MissingParameterErrors == {MissingIdContext, MissingEndorsement, MissingTargets}

\* How a call ended: the value it returned (threw = None) or the error it
\* threw (an async call: the value or the error its promise settled with).
Returned(op, args, value) ==
    [op |-> op, args |-> args, threw |-> None, value |-> value]
Threw(op, args, error) ==
    [op |-> op, args |-> args, threw |-> [message |-> error], value |-> None]

----
\* Commit.build

\* the instance state _reset leaves: no action, no payload, no signature
EmptyAction == [payload |-> None]

_reset(self) ==
    [_action |-> EmptyAction, _payload |-> None, _signature |-> None]

\* (variant: build does not reset the instance)
BuildResetCall_Skipped(self) == self

\* build's call of _reset
BuildResetCall(self) == _reset(self)

\* (variant: a record held already is kept and the request's is ignored)
ResolveEndorsement_HeldFirst(held, request) ==
    IF held # None THEN held ELSE request.endorsement

\* the record build works on: the request's, else the one held
ResolveEndorsement(held, request) ==
    IF request.endorsement # None THEN request.endorsement ELSE held

\* the test build makes before it throws 'Proposal has not been endorsed'
NotEndorsed(endorsement) == endorsement._proposalResponses = None

\* (variant: the status of the response is not looked at)
IsValidResponse_AnyStatus(proposalResponse) ==
    /\ proposalResponse # None
    /\ proposalResponse.response # None

\* the test the filter loop applies to one entry
IsValidResponse(proposalResponse) ==
    /\ proposalResponse # None
    /\ proposalResponse.response # None
    /\ proposalResponse.response.status = SuccessStatus

\* (variant: the endorsement of every entry that is not null is pushed)
ValidEndorsements_Unfiltered(responses) ==
    LET kept == SelectSeq(responses, LAMBDA pr : pr # None)
    IN  [i \in 1..Len(kept) |-> kept[i].endorsement]

\* the endorsements the loop pushes, in the order of the responses
ValidEndorsements(responses) ==
    LET kept == SelectSeq(responses, IsValidResponse)
    IN  [i \in 1..Len(kept) |-> kept[i].endorsement]

\* (variant: the last response is taken)
CanonicalResponse_Last(responses) == responses[Len(responses)]

\* (variant: the first response that passed the filter is taken)
CanonicalResponse_FirstValid(responses) ==
    LET valid == {i \in DOMAIN responses : IsValidResponse(responses[i])}
    IN  IF valid = {} THEN responses[1]
        ELSE responses[CHOOSE i \in valid : \A j \in valid : i <= j]

\* the response whose payload goes into the endorsed action
CanonicalResponse(responses) == responses[1]

\* ChaincodeEndorsedAction: proposal_response_payload (1), endorsements (2, repeated)
ChaincodeEndorsedAction(proposalResponse, endorsements) ==
    << <<1, proposalResponse.payload>> >> \o
    [i \in 1..Len(endorsements) |-> <<2, endorsements[i]>>]

\* (variant: the original proposal payload is passed on as it is)
ChaincodeProposalPayloadNoTrans_Verbatim(proposal) == proposal.payload

\* the original proposal payload with only its input field set again
ChaincodeProposalPayloadNoTrans(proposal) ==
    LET original == DecodeChaincodeProposalPayload(proposal.payload)
    IN  toBuffer(<< <<1, original.input>> >>)

\* ChaincodeActionPayload: chaincode_proposal_payload (1), action (2)
ChaincodeActionPayload(endorsement, endorsements) ==
    << <<1, ChaincodeProposalPayloadNoTrans(endorsement._action.proposal)>>,
       <<2, toBuffer(ChaincodeEndorsedAction(
                CanonicalResponse(endorsement._proposalResponses.responses),
                endorsements))>> >>

\* TransactionAction: header (1), payload (2)
TransactionAction(endorsement, endorsements) ==
    << <<1, endorsement._action.header.signature_header>>,
       <<2, toBuffer(ChaincodeActionPayload(endorsement, endorsements))>> >>

\* Transaction: actions (1, repeated), here a single one
Transaction(endorsement, endorsements) ==
    << <<1, toBuffer(TransactionAction(endorsement, endorsements))>> >>

\* the header the final payload carries
PayloadHeader(endorsement) == endorsement._action.header

\* common.Payload: header (1), data (2)
Payload(endorsement, endorsements) ==
    [header |-> PayloadHeader(endorsement),
     data   |-> toBuffer(Transaction(endorsement, endorsements))]

\* Header: channel_header (1), signature_header (2)
HeaderToBuffer(header) ==
    toBuffer(<< <<1, header.channel_header>>, <<2, header.signature_header>> >>)

PayloadToBuffer(payload) ==
    toBuffer(<< <<1, HeaderToBuffer(payload.header)>>, <<2, payload.data>> >>)

BuildContexts == IdentityContexts \cup {None}

\* What the log keeps of a build call: its idContext. The record the request
\* named is not logged; it is the one the instance holds after the call.
\* (variant: the responses are taken off the record as they are used)
EndorsementAfterBuild_Consumed(endorsement) ==
    LET responses == endorsement._proposalResponses.responses
    IN  [endorsement EXCEPT
            !._proposalResponses =
                [responses |-> IF Len(responses) = 0 THEN responses
                               ELSE Tail(responses)]]

\* the record as build leaves it: build reads the responses, the proposal
\* and the header, and writes to none of them
EndorsementAfterBuild(endorsement) == endorsement

BuildArgs(idContext, request) == [idContext |-> idContext]

Build(idContext, request) ==
    LET endorsement == ResolveEndorsement(_endorsement, request)
        reset       == BuildResetCall([_action    |-> _action,
                                       _payload   |-> _payload,
                                       _signature |-> _signature])
    IN
    /\ UNCHANGED sending
    /\ IF idContext = None
       THEN /\ last' = Threw("build", BuildArgs(idContext, request), MissingIdContext)
            /\ UNCHANGED <<_endorsement, _action, _payload, _signature>>
       ELSE IF endorsement = None
       THEN /\ last' = Threw("build", BuildArgs(idContext, request), MissingEndorsement)
            /\ UNCHANGED <<_endorsement, _action, _payload, _signature>>
       ELSE IF NotEndorsed(endorsement)
       THEN /\ last' = Threw("build", BuildArgs(idContext, request), NotEndorsedError)
            /\ _endorsement' = endorsement
            /\ UNCHANGED <<_action, _payload, _signature>>
       ELSE LET responses    == endorsement._proposalResponses.responses
                endorsements == ValidEndorsements(responses)
            IN
            /\ _endorsement' = EndorsementAfterBuild(endorsement)
            /\ _signature' = reset._signature
            /\ IF Len(endorsements) < 1
               THEN /\ last' = Threw("build", BuildArgs(idContext, request), NoValidEndorsements)
                    /\ _action' = reset._action
                    /\ _payload' = reset._payload
               ELSE IF CanonicalResponse(responses) = None
               THEN /\ last' = Threw("build", BuildArgs(idContext, request), NullResponseTypeError)
                    /\ _action' = reset._action
                    /\ _payload' = reset._payload
               ELSE LET payload == Payload(endorsement, endorsements)
                    IN  /\ _action' = [payload |-> payload]
                        /\ _payload' = PayloadToBuffer(payload)
                        /\ last' = Returned("build", BuildArgs(idContext, request),
                                         PayloadToBuffer(payload))

----
\* ServiceAction.sign

Sign(param) ==
    /\ UNCHANGED <<_endorsement, _action, _payload, sending>>
    /\ IF _payload = None
       THEN /\ last' = Threw("sign", param, PayloadNotBuilt)
            /\ UNCHANGED _signature
       ELSE /\ _signature' = [signer |-> param.name, signed |-> _payload]
            /\ last' = Returned("sign", param, None)

----
\* ServiceAction.getSignedEnvelope

getSignedEnvelope(self) ==
    IF self._payload = None THEN Threw("getSignedEnvelope", None, PayloadNotBuilt)
    ELSE IF self._signature = None THEN Threw("getSignedEnvelope", None, PayloadNotSigned)
    ELSE Returned("getSignedEnvelope", None,
                  [signature |-> self._signature, payload |-> self._payload])

----
\* Commit.send

\* What a committer's sendBroadcast, or a handler's commit, does when called:
\* it returns an outcome with status SUCCESS, returns an outcome with a
\* failure status, or fails with a transport error (a timeout included).
Replies == {"SUCCESS", "BAD_REQUEST", "throws"}

\* the committer at position i of a targets list
Committer(reply, i) == [name |-> i, reply |-> reply]

TargetLists ==
    {[list |-> [i \in DOMAIN rs |-> Committer(rs[i], i)]] :
        rs \in SeqsUpTo(Replies, MaxTargets)}

Handlers == {[name |-> "handler", reply |-> r] : r \in Replies}

\* the requests of send; one that names a handler names at most
\* MaxHandlerTargets targets besides
SendRequests ==
    {r \in [handler : Handlers \cup {None}, targets : TargetLists \cup {None},
            requestTimeout : {None}] :
        r.handler # None =>
            (r.targets = None \/ Len(r.targets.list) <= MaxHandlerTargets)}

\* the outcome of calling sendBroadcast or commit on a peer: the outcome
\* object carries the status and, as its message, the name of the peer
Outcome(peer) ==
    IF peer.reply = "throws" THEN Threw("call", None, TransportError)
    ELSE Returned("call", None, [status |-> peer.reply, message |-> peer.name])

\* Channel.getTargetCommitters: the committers of the targets, in their order
getTargetCommitters(targets) == targets.list

\* (variant: the envelope is assembled without the checks)
SendEnvelope_Unchecked(self) ==
    Returned("getSignedEnvelope", None,
             [signature |-> self._signature, payload |-> self._payload])

\* the envelope send works with
SendEnvelope(self) == getSignedEnvelope(self)

\* (variant: the targets are looked at before the handler)
SendMode_TargetsFirst(request) ==
    IF request.targets # None THEN "targets"
    ELSE IF request.handler # None THEN "handler"
    ELSE "missing"

\* the branch send takes on its request
SendMode(request) ==
    IF request.handler # None THEN "handler"
    ELSE IF request.targets # None THEN "targets"
    ELSE "missing"

\* the placeholder the loop starts from
InitialBadResult == [status |-> "UNKNOWN"]

\* the test that ends the loop
IsSuccess(result) == result.status = "SUCCESS"

\* (variant: the first failure is kept, later ones are dropped)
NextBadResult_FirstFailure(bad_result, result) ==
    IF bad_result = InitialBadResult THEN result ELSE bad_result

\* (variant: the outcome of a failed target is not kept)
NextBadResult_Dropped(bad_result, result) == bad_result

\* the outcome kept when a target did not succeed
NextBadResult(bad_result, result) == result

\* (variant: the placeholder outcome is returned instead of an error)
MissingTargetsEnd_ReturnsUnknown == Returned("send", None, InitialBadResult)

\* how send ends on a request with neither handler nor targets
MissingTargetsEnd == Threw("send", None, MissingTargets)

\* what a failed sendBroadcast does to the send awaiting it
BroadcastFailure(bad_result) == Threw("sendBroadcast", None, TransportError)

\* How a send call ended, with the calls it made: commits are the
\* handler.commit calls, broadcasts the sendBroadcast calls, in call order.
SendEnded(request, end, commits, broadcasts) ==
    [op |-> "send", args |-> request, threw |-> end.threw, value |-> end.value,
     commits |-> commits, broadcasts |-> broadcasts]

\* A send call that reached its first await and has not ended yet.
Suspended(request) ==
    [op |-> "send suspended", args |-> request, threw |-> None, value |-> None]

\* (variant: the envelope is read from the instance again at each attempt)
BroadcastEnvelope_Refetched(captured, self) ==
    [signature |-> self._signature, payload |-> self._payload]

\* the envelope an attempt after the first is given: the one send captured
\* in its local constant before the loop, whatever the instance holds by then
BroadcastEnvelope(captured, self) == captured

BroadcastCall(committer, envelope, requestTimeout) ==
    [committer |-> committer.name, envelope |-> envelope,
     timeout |-> requestTimeout]

\* send up to its first await, or to its end when it awaits nothing
Send(request) ==
    LET envelope == SendEnvelope([_payload |-> _payload, _signature |-> _signature])
        mode     == SendMode(request)
    IN
    /\ sending = None
    /\ UNCHANGED <<_endorsement, _action, _payload, _signature>>
    /\ IF envelope.threw # None
       THEN /\ last' = SendEnded(request, envelope, <<>>, <<>>)
            /\ UNCHANGED sending
       ELSE IF mode = "handler"
       THEN /\ sending' = [awaiting   |-> "handler",
                            request    |-> request,
                            envelope   |-> envelope.value,
                            committers |-> <<>>,
                            index      |-> 0,
                            bad_result |-> None,
                            commits    |-> << [envelope |-> envelope.value,
                                               request  |-> request] >>,
                            broadcasts |-> <<>>]
            /\ last' = Suspended(request)
       ELSE IF mode = "targets"
       THEN LET committers == getTargetCommitters(request.targets)
            IN  IF Len(committers) = 0
                THEN /\ last' = SendEnded(request, Returned("send", None, InitialBadResult),
                                          <<>>, <<>>)
                     /\ UNCHANGED sending
                ELSE /\ sending' = [awaiting   |-> "broadcast",
                                     request    |-> request,
                                     envelope   |-> envelope.value,
                                     committers |-> committers,
                                     index      |-> 1,
                                     bad_result |-> InitialBadResult,
                                     commits    |-> <<>>,
                                     broadcasts |-> << BroadcastCall(committers[1],
                                                          envelope.value,
                                                          request.requestTimeout) >>]
                     /\ last' = Suspended(request)
       ELSE /\ last' = SendEnded(request, MissingTargetsEnd, <<>>, <<>>)
            /\ UNCHANGED sending

\* the handler's commit settles and send resumes
HandlerSettles ==
    /\ sending # None
    /\ sending.awaiting = "handler"
    /\ UNCHANGED <<_endorsement, _action, _payload, _signature>>
    /\ sending' = None
    /\ last' = SendEnded(sending.request, Outcome(sending.request.handler),
                         sending.commits, sending.broadcasts)

\* the sendBroadcast awaited settles and the loop resumes
BroadcastSettles ==
    /\ sending # None
    /\ sending.awaiting = "broadcast"
    /\ UNCHANGED <<_endorsement, _action, _payload, _signature>>
    /\ LET committers == sending.committers
           result     == Outcome(committers[sending.index])
       IN  IF result.threw # None
           THEN /\ sending' = None
                /\ last' = SendEnded(sending.request,
                                     BroadcastFailure(sending.bad_result),
                                     sending.commits, sending.broadcasts)
           ELSE IF IsSuccess(result.value)
           THEN /\ sending' = None
                /\ last' = SendEnded(sending.request,
                                     Returned("send", None, result.value),
                                     sending.commits, sending.broadcasts)
           ELSE LET bad_result == NextBadResult(sending.bad_result, result.value)
                IN  IF sending.index < Len(committers)
                    THEN /\ sending' =
                                [sending EXCEPT
                                    !.index = @ + 1,
                                    !.bad_result = bad_result,
                                    !.broadcasts = Append(@,
                                        BroadcastCall(committers[sending.index + 1],
                                                      BroadcastEnvelope(sending.envelope,
                                                          [_payload   |-> _payload,
                                                           _signature |-> _signature]),
                                                      sending.request.requestTimeout))]
                         /\ UNCHANGED last
                    ELSE /\ sending' = None
                         /\ last' = SendEnded(sending.request,
                                              Returned("send", None, bad_result),
                                              sending.commits, sending.broadcasts)

----
\* The Commit instance after construction, with or without an endorsement.
Constructed(endorsements) ==
    /\ _endorsement \in endorsements \cup {None}
    /\ _action = EmptyAction
    /\ _payload = None
    /\ _signature = None
    /\ sending = None
    /\ last = Returned("constructor", None, None)

\* A further Commit action is constructed on the record that the present one
\* holds, and the model goes on with the new action. Its log entry names the
\* record and, when the last call on the action before was a build that
\* returned, the payload that build obtained from the record.
NewCommit ==
    /\ sending = None
    /\ UNCHANGED <<_endorsement, sending>>
    /\ _action' = EmptyAction
    /\ _payload' = None
    /\ _signature' = None
    /\ last' = [op       |-> "new Commit",
                args     |-> [endorsement |-> _endorsement],
                threw    |-> None,
                value    |-> None,
                previous |-> IF last.op = "build" /\ last.threw = None
                             THEN last.value ELSE None]

\* The lifecycle of one Commit instance, with every send request.
Init == Constructed(LifecycleEndorsements)

Next ==
    \/ \E idContext \in BuildContexts,
          request \in [endorsement : LifecycleEndorsements \cup {None}] :
            Build(idContext, request)
    \/ \E param \in IdentityContexts : Sign(param)
    \/ \E request \in SendRequests : Send(request)
    \/ HandlerSettles
    \/ BroadcastSettles
    \/ NewCommit

Spec == Init /\ [][Next]_vars

\* Building and signing, with every Endorsement Record.
InitBuild == Constructed(Endorsements)

NextBuild ==
    \/ \E idContext \in BuildContexts,
          request \in [endorsement : Endorsements \cup {None}] :
            Build(idContext, request)
    \/ \E param \in IdentityContexts : Sign(param)

SpecBuild == InitBuild /\ [][NextBuild]_vars

----
\* Properties of send, checked under Spec.

\* the instance holds a signed envelope
Signed == _payload # None /\ _signature # None

\* the last call was a send that has ended
SendHasEnded == last.op = "send"

\* ... and it ended with the error named
SendThrew(errors) ==
    SendHasEnded /\ last.threw # None /\ last.threw.message \in errors

\* ... and it was made on a signed action with targets and no handler
SignedSendToTargets ==
    /\ SendHasEnded
    /\ ~SendThrew(PreconditionErrors)
    /\ last.args.handler = None
    /\ last.args.targets # None

\* the committers of the request of the last send
Targets == last.args.targets.list

\* target k is the first one in list order that answers SUCCESS
FirstSuccess(k) ==
    /\ Targets[k].reply = "SUCCESS"
    /\ \A j \in 1..(k - 1) : Targets[j].reply # "SUCCESS"

\* the outcome object that target k produces
OutcomeOfTarget(k) == [status |-> Targets[k].reply, message |-> Targets[k].name]

\* C1: on a signed action with a targets list and no handler, if tk is the
\* first target in list order whose sendBroadcast outcome has status SUCCESS,
\* send returns exactly tk's outcome, whatever the later targets would answer.
C1_FirstSuccessIsReturned ==
    SignedSendToTargets =>
        \A k \in DOMAIN Targets :
            FirstSuccess(k) =>
                last.threw = None /\ last.value = OutcomeOfTarget(k)

\* The part of C1 the code keeps: if every target before tk returned an
\* outcome, send returns tk's outcome.
C1_WhenEarlierTargetsReturn ==
    SignedSendToTargets =>
        \A k \in DOMAIN Targets :
            (FirstSuccess(k) /\ \A j \in 1..(k - 1) : Targets[j].reply # "throws") =>
                last.threw = None /\ last.value = OutcomeOfTarget(k)

\* C2: when the targets list is not empty and every target returns an
\* outcome that is not SUCCESS, send returns the outcome of the last target.
C2_LastFailureIsReturned ==
    (/\ SignedSendToTargets
     /\ Len(Targets) >= 1
     /\ \A i \in DOMAIN Targets : Targets[i].reply \notin {"SUCCESS", "throws"})
    => (last.threw = None /\ last.value = OutcomeOfTarget(Len(Targets)))

\* Three targets answered BAD_REQUEST and send returned the third outcome.
C2_Witness ==
    /\ SignedSendToTargets
    /\ Len(Targets) = 3
    /\ \A i \in DOMAIN Targets : Targets[i].reply = "BAD_REQUEST"
    /\ Len(last.broadcasts) = 3
    /\ last.value = [status |-> "BAD_REQUEST", message |-> 3]

\* C3: send with a targets list never raises because a target failed: a
\* transport error of a sendBroadcast becomes a non-success outcome, the
\* remaining targets are still attempted in order, and send returns an
\* outcome object.
C3_TargetFailureNeverRaises ==
    SignedSendToTargets =>
        /\ last.threw = None
        /\ \A i \in DOMAIN Targets :
              (\A j \in 1..(i - 1) : Targets[j].reply # "SUCCESS")
                  => /\ i <= Len(last.broadcasts)
                     /\ last.broadcasts[i].committer = Targets[i].name

\* the request of the last send names neither a handler nor targets
SendWithNeither ==
    SendHasEnded /\ last.args.handler = None /\ last.args.targets = None

\* the last send called no handler and no committer
NothingContacted == last.commits = <<>> /\ last.broadcasts = <<>>

\* C4 (as stated): send with neither handler nor targets fails with
\* 'Missing targets parameter' and contacts nothing, in every lifecycle
\* state of the action.
C4_MissingTargetsInEveryState ==
    SendWithNeither => (SendThrew({MissingTargets}) /\ NothingContacted)

\* C4 (amended): send with neither handler nor targets contacts nothing in
\* every lifecycle state; it fails with 'Missing targets parameter' when the
\* action holds a signed envelope and with a PreconditionError when it does
\* not. (Such a send ends without awaiting, so the instance is as it was
\* when send was called.)
C4_MissingTargetsWhenSigned ==
    SendWithNeither =>
        /\ NothingContacted
        /\ sending = None
        /\ IF Signed THEN SendThrew({MissingTargets})
                     ELSE SendThrew(PreconditionErrors)

\* A signed action was sent with neither and got 'Missing targets parameter'.
C4_Witness ==
    SendWithNeither /\ Signed /\ SendThrew({MissingTargets}) /\ NothingContacted

\* this step is a call of send
SendIsCalled ==
    /\ sending = None
    /\ last'.op \in {"send", "send suspended"}
    /\ Send(last'.args)

\* this step is a call of sign
SignIsCalled ==
    /\ last'.op = "sign"
    /\ Sign(last'.args)

\* C5: no transition skips a predecessor: sign on an action with no built
\* payload fails with a PreconditionError and signs nothing, and send on an
\* action with no signed envelope fails with a PreconditionError before any
\* handler or committer is contacted, whatever the request contains.
C5_NoSkippedPredecessor ==
    [][/\ (SignIsCalled /\ _payload = None) =>
            /\ last'.threw # None
            /\ last'.threw.message \in PreconditionErrors
            /\ _signature' = None
       /\ (SendIsCalled /\ ~Signed) =>
            /\ sending' = None
            /\ last'.op = "send"
            /\ last'.threw # None
            /\ last'.threw.message \in PreconditionErrors
            /\ last'.commits = <<>>
            /\ last'.broadcasts = <<>>]_vars

\* A built but unsigned action was sent with a handler and with targets, and
\* the send failed with a PreconditionError, contacting nothing.
C5_Witness ==
    /\ SendThrew(PreconditionErrors)
    /\ _payload # None
    /\ _signature = None
    /\ last.args.handler # None
    /\ last.args.targets # None
    /\ NothingContacted

----
\* Properties of build, checked under SpecBuild (C6 to C9) and Spec (C10).

\* the last call was a build that got its idContext and resolved a record:
\* the record it worked on is the one the instance holds
BuildCalled ==
    /\ last.op = "build"
    /\ last.args.idContext # None
    /\ _endorsement # None

BuildReturned == BuildCalled /\ last.threw = None

BuildThrew(error) ==
    BuildCalled /\ last.threw # None /\ last.threw.message = error

\* the response sequence of the record held (when it has one)
Responses == _endorsement._proposalResponses.responses

\* entry i of the response sequence carries the status given
HasStatus(i, status) ==
    /\ Responses[i] # None
    /\ Responses[i].response # None
    /\ Responses[i].response.status = status

\* the positions of the responses that carry status 200
SuccessPositions == {i \in DOMAIN Responses : HasStatus(i, 200)}

\* the position of the n-th response that carries status 200
NthSuccess(n) ==
    CHOOSE p \in SuccessPositions :
        Cardinality({j \in SuccessPositions : j <= p}) = n

\* The payload bytes read back, field by field.
HeaderIn(bytes)          == FieldOf(bytes, 1)
ActionsIn(bytes)         == RepeatedOf(FieldOf(bytes, 2), 1)
ActionHeaderIn(bytes)    == FieldOf(ActionsIn(bytes)[1], 1)
ActionPayloadIn(bytes)   == FieldOf(ActionsIn(bytes)[1], 2)
ProposalPayloadIn(bytes) == FieldOf(ActionPayloadIn(bytes), 1)
EndorsedActionIn(bytes)  == FieldOf(ActionPayloadIn(bytes), 2)
EndorsementsIn(bytes)    == RepeatedOf(EndorsedActionIn(bytes), 2)

\* C6: for every Endorsement Record that holds zero responses (one whose
\* response sequence is present but empty included), build fails with
\* 'Proposal has not been endorsed'.
C6_ZeroResponsesNotEndorsed ==
    (/\ BuildCalled
     /\ (_endorsement._proposalResponses = None \/ Len(Responses) = 0))
    => BuildThrew(NotEndorsedError)

\* C7: for every Endorsement Record with at least one response and no
\* response of status 200 (other statuses, null entries, entries without a
\* response), build fails with 'No valid endorsements found' and leaves no
\* payload.
C7_NoValidEndorsements ==
    (/\ BuildCalled
     /\ _endorsement._proposalResponses # None
     /\ Len(Responses) >= 1
     /\ SuccessPositions = {})
    => (/\ BuildThrew(NoValidEndorsements)
        /\ last.value = None
        /\ _payload = None)

\* A record of a null entry and a rejected response was refused.
C7_Witness ==
    /\ BuildThrew(NoValidEndorsements)
    /\ Len(Responses) = 2
    /\ Responses[1] = None
    /\ HasStatus(2, 500)
    /\ _payload = None

\* C8: when build succeeds, the endorsement list in the envelope is exactly
\* the endorsement blobs of the responses of status 200, in arrival order.
C8_EndorsementsAreTheValidOnes ==
    BuildReturned =>
        /\ Len(EndorsementsIn(_payload)) = Cardinality(SuccessPositions)
        /\ \A n \in 1..Len(EndorsementsIn(_payload)) :
              EndorsementsIn(_payload)[n] = Responses[NthSuccess(n)].endorsement

\* Statuses 200 and 500 gave a list of length 1, taken from the first.
C8_Witness ==
    /\ BuildReturned
    /\ Len(Responses) = 2
    /\ HasStatus(1, 200)
    /\ HasStatus(2, 500)
    /\ EndorsementsIn(_payload) = << Responses[1].endorsement >>

\* the original proposal payload of the record held
OriginalProposalPayload == _endorsement._action.proposal.payload

\* C9: the payload build produces has the header of the original proposal
\* and a single transaction action whose header is that header's signature
\* header, and its embedded proposal payload holds the input field of the
\* original proposal payload and nothing else: no transient data.
C9_HeaderKeptTransientStripped ==
    BuildReturned =>
        /\ FieldOf(HeaderIn(_payload), 1) = _endorsement._action.header.channel_header
        /\ FieldOf(HeaderIn(_payload), 2) = _endorsement._action.header.signature_header
        /\ Len(ActionsIn(_payload)) = 1
        /\ ActionHeaderIn(_payload) = _endorsement._action.header.signature_header
        /\ FieldOf(ProposalPayloadIn(_payload), 1) = FieldOf(OriginalProposalPayload, 1)
        /\ FieldOf(ProposalPayloadIn(_payload), 2) = None
        /\ Len(ProposalPayloadIn(_payload).buffer) = 1

\* A record whose proposal carried transient data was built.
C9_Witness ==
    /\ BuildReturned
    /\ FieldOf(OriginalProposalPayload, 2) # None
    /\ FieldOf(ProposalPayloadIn(_payload), 2) = None

\* the payload a newly constructed action builds from the record
FreshPayload(endorsement) ==
    PayloadToBuffer(Payload(endorsement,
        ValidEndorsements(endorsement._proposalResponses.responses)))

\* C10: build is reusable but not additive: a build that succeeds on an
\* action in any state leaves the payload a fresh action would build from
\* the same record (no endorsement of an earlier build is in it) and no
\* signed envelope, so a send that follows fails with a PreconditionError.
C10_BuildIsNotAdditive ==
    [][/\ BuildReturned' =>
            /\ _signature' = None
            /\ _payload' # None
            /\ _payload' = last'.value
            /\ _payload' = FreshPayload(_endorsement')
            /\ Len(EndorsementsIn(_payload')) = Cardinality(SuccessPositions')
       /\ (BuildReturned /\ SendIsCalled) =>
            /\ last'.op = "send"
            /\ last'.threw # None
            /\ last'.threw.message \in PreconditionErrors]_vars

\* An action whose signed envelope is being sent was built again, from
\* another record: it holds the new payload and no signature.
C10_Witness ==
    /\ sending # None
    /\ BuildReturned
    /\ sending.envelope.payload # _payload
    /\ _signature = None

----
\* Properties of the whole lifecycle, checked under Spec.

\* the requests that build is called with
BuildRequests == [endorsement : LifecycleEndorsements \cup {None}]

\* this step is a call of build
BuildIsCalled ==
    /\ last'.op = "build"
    /\ \E request \in BuildRequests : Build(last'.args.idContext, request)

\* the last call was a build and it failed
BuildFailed == last.op = "build" /\ last.threw # None

\* C11: the accumulated payload is cleared at the start of every build call,
\* also of one that fails: after a failing build on a built and signed action
\* the action holds no payload and no signature, and a send that follows the
\* failed build fails with a PreconditionError.
C11_FailedBuildClearsPayload ==
    [][/\ (Signed /\ BuildIsCalled /\ last'.threw # None) =>
            /\ _payload' = None
            /\ _signature' = None
       /\ (BuildFailed /\ SendIsCalled) =>
            /\ last'.op = "send"
            /\ last'.threw # None
            /\ last'.threw.message \in PreconditionErrors]_vars

\* the envelope the instance holds
HeldEnvelope == [signature |-> _signature, payload |-> _payload]

\* what a send returns or throws when the handler given has settled
HandlerOutcomeIs(handler, end) ==
    IF handler.reply = "throws"
    THEN /\ end.threw # None
         /\ end.threw.message = TransportError
    ELSE /\ end.threw = None
         /\ end.value = [status |-> handler.reply, message |-> handler.name]

\* C12: a send on a signed action whose request names a handler, with or
\* without targets, calls handler.commit exactly once, with the signed
\* envelope and the whole request, calls sendBroadcast on no committer, and
\* ends with exactly what the handler's commit ended with.
C12_HandlerIsCalledOnceAlone ==
    [][/\ (SendIsCalled /\ Signed /\ last'.args.handler # None) =>
            /\ sending' # None
            /\ sending'.commits =
                   << [envelope |-> HeldEnvelope, request |-> last'.args] >>
            /\ sending'.broadcasts = <<>>
       /\ (sending # None /\ sending.request.handler # None /\ sending' # sending) =>
            /\ sending' = None
            /\ last'.op = "send"
            /\ last'.args = sending.request
            /\ last'.commits = sending.commits
            /\ Len(last'.commits) = 1
            /\ last'.broadcasts = <<>>
            /\ HandlerOutcomeIs(sending.request.handler, last')]_vars

\* A send with a handler and a target that would have answered SUCCESS has
\* ended: the handler was called once, its failure outcome was returned as
\* it is, and the target was not contacted.
C12_Witness ==
    /\ SendHasEnded
    /\ last.args.handler # None
    /\ last.args.targets # None
    /\ Len(Targets) = 1
    /\ Targets[1].reply = "SUCCESS"
    /\ Len(last.commits) = 1
    /\ last.commits[1].request = last.args
    /\ last.broadcasts = <<>>
    /\ last.threw = None
    /\ last.value.status = "BAD_REQUEST"

\* C13: a send in targets mode returns the placeholder outcome with status
\* UNKNOWN if and only if it attempted no target, which is when the resolved
\* list of targets is empty; when it attempted a target and returned, the
\* outcome returned is the outcome object of one of the targets attempted.
C13_UnknownIffNothingAttempted ==
    SignedSendToTargets =>
        /\ (Len(Targets) = 0) <=> (last.broadcasts = <<>>)
        /\ Len(Targets) = 0 => last.threw = None
        /\ last.threw = None =>
            /\ (last.value = InitialBadResult) <=> (last.broadcasts = <<>>)
            /\ (last.value.status = "UNKNOWN") <=> (Len(Targets) = 0)
            /\ last.broadcasts # <<>> =>
                \E i \in 1..Len(last.broadcasts) :
                    /\ last.broadcasts[i].committer = Targets[i].name
                    /\ last.value = OutcomeOfTarget(i)

\* A signed action was sent to an empty list of targets: nothing was
\* attempted and the placeholder came back.
C13_Witness ==
    /\ SignedSendToTargets
    /\ Len(Targets) = 0
    /\ last.broadcasts = <<>>
    /\ last.threw = None
    /\ last.value = InitialBadResult

BuildWorkedOn(endorsement) ==
    /\ _endorsement' = endorsement
    /\ last'.threw # None => last'.threw.message # MissingEndorsement
    /\ (endorsement._proposalResponses = None) <=>
            (last'.threw # None /\ last'.threw.message = NotEndorsedError)
    /\ last'.threw = None => _payload' = FreshPayload(endorsement)

\* C15: build works on the record given in its request when there is one,
\* whatever record the instance held before, and that record stays in effect;
\* otherwise it works on the record the instance holds, from its constructor
\* or from an earlier build; when there is neither it fails with the
\* MissingParameterError for the endorsement and still holds no record.
C15_RequestRecordTakesPrecedence ==
    [][\A idContext \in IdentityContexts, request \in BuildRequests :
            Build(idContext, request) =>
                IF request.endorsement # None
                THEN BuildWorkedOn(request.endorsement)
                ELSE IF _endorsement # None
                THEN BuildWorkedOn(_endorsement)
                ELSE /\ last'.threw # None
                     /\ last'.threw.message = MissingEndorsement
                     /\ last'.threw.message \in MissingParameterErrors
                     /\ _endorsement' = None]_vars

\* An action that holds the payload it built from one record was then given,
\* in a build request, a record that was never endorsed: that build worked on
\* the record of the request.
C15_Witness ==
    /\ BuildThrew(NotEndorsedError)
    /\ _endorsement._proposalResponses = None
    /\ _payload # None

\* the sendBroadcast calls made so far are on the first targets of the list
\* given, in the order of the list, one call for each
InListOrder(broadcasts, committers) ==
    /\ Len(broadcasts) <= Len(committers)
    /\ \A i \in 1..Len(broadcasts) : broadcasts[i].committer = committers[i].name

\* C16: in targets mode send attempts the targets in the order of the list,
\* one at a time and each at most once, and none after the first SUCCESS:
\* when tk is the first target that answers SUCCESS exactly k attempts are
\* made, otherwise exactly n, n being the length of the list.
C16_AttemptsInOrderUntilSuccess ==
    /\ (sending # None /\ sending.awaiting = "broadcast") =>
            /\ InListOrder(sending.broadcasts, sending.committers)
            /\ Len(sending.broadcasts) = sending.index
    /\ SignedSendToTargets =>
            /\ InListOrder(last.broadcasts, Targets)
            /\ IF \E k \in 1..Len(Targets) : FirstSuccess(k)
               THEN FirstSuccess(Len(last.broadcasts))
               ELSE Len(last.broadcasts) = Len(Targets)

\* C16, when every target attempted returned an outcome: the attempts are in
\* list order and stop at tk, the first SUCCESS, or after all n targets.
C16_WhenTargetsReturn ==
    (SignedSendToTargets /\ last.threw = None) =>
        /\ InListOrder(last.broadcasts, Targets)
        /\ IF \E k \in 1..Len(Targets) : FirstSuccess(k)
           THEN FirstSuccess(Len(last.broadcasts))
           ELSE Len(last.broadcasts) = Len(Targets)

----
\* Properties of the response build takes the payload from, checked under
\* SpecBuild.

\* the proposal response payload in the endorsed action of the payload bytes
ResponsePayloadIn(bytes) == FieldOf(EndorsedActionIn(bytes), 1)

\* C17: whenever build succeeds, the proposal response payload in the
\* endorsed action is the payload of the first response of the record in
\* arrival order, however many responses follow and whichever are valid.
C17_PayloadOfFirstResponse ==
    BuildReturned =>
        /\ Responses[1] # None
        /\ ResponsePayloadIn(_payload) = Responses[1].payload

\* A build succeeded on a record whose first response was rejected and whose
\* second has status 200: the payload of the first one is in the envelope.
C17_Witness ==
    /\ BuildReturned
    /\ Len(Responses) = 2
    /\ HasStatus(1, 500)
    /\ HasStatus(2, 200)
    /\ ResponsePayloadIn(_payload) = Responses[1].payload
    /\ ResponsePayloadIn(_payload) # Responses[2].payload

\* the endorsements in the payload bytes, as a set
EndorsementSetIn(bytes) ==
    {EndorsementsIn(bytes)[i] : i \in DOMAIN EndorsementsIn(bytes)}

\* the proposal response payload in the envelope is the payload of a response
\* that passed the status filter, whose endorsement is in the envelope
PayloadFromValidResponse ==
    \E i \in SuccessPositions :
        /\ ResponsePayloadIn(_payload) = Responses[i].payload
        /\ Responses[i].endorsement \in EndorsementSetIn(_payload)

\* C18 (as stated): whenever build succeeds, the proposal response payload
\* in the envelope comes from a response that passed the status-200 filter;
\* the payload of a rejected response is never paired with the endorsements
\* of other responses.
C18_PayloadFromValidResponse ==
    BuildReturned => PayloadFromValidResponse

\* C18 (amended): whenever build succeeds, the proposal response payload in
\* the envelope comes from a response that passed the status-200 filter
\* exactly when the first response of the record has status 200; when the
\* first response did not pass the filter, its payload is in the envelope
\* and its endorsement is not.
C18_PayloadFromValidIffFirstIsValid ==
    BuildReturned =>
        /\ PayloadFromValidResponse <=> HasStatus(1, 200)
        /\ ~HasStatus(1, 200) =>
            /\ ResponsePayloadIn(_payload) = Responses[1].payload
            /\ Responses[1].endorsement \notin EndorsementSetIn(_payload)

\* A build succeeded on statuses [500, 200]: the envelope pairs the payload
\* of the rejected response with the endorsement of the other one only.
C18_Witness ==
    /\ BuildReturned
    /\ HasStatus(1, 500)
    /\ SuccessPositions = {2}
    /\ EndorsementsIn(_payload) = << Responses[2].endorsement >>
    /\ ResponsePayloadIn(_payload) = Responses[1].payload
    /\ ~PayloadFromValidResponse

\* the errors build is documented to fail with on its record
DocumentedBuildErrors == {MissingEndorsement, NotEndorsedError, NoValidEndorsements}

\* C19: for every Endorsement Record, a build that is given its idContext
\* either returns a payload or fails with one of the three documented
\* errors; null entries and entries without a response, which the filter
\* passes over, never make it fail with another error.
C19_OnlyDocumentedErrors ==
    (/\ last.op = "build"
     /\ last.args.idContext # None
     /\ last.threw # None) =>
        last.threw.message \in DocumentedBuildErrors

----
\* Properties of a send with build and sign calls made while it is suspended,
\* checked under Spec.

\* every sendBroadcast call of the log was given the envelope
AllGiven(broadcasts, envelope) ==
    \A i \in DOMAIN broadcasts : broadcasts[i].envelope = envelope

\* C20: all targets contacted in one send are given the same signed envelope,
\* the one the instance held when send was called, also when build or sign is
\* called on the action while the send is suspended between attempts; such a
\* call changes nothing of the send in flight, which fails only when the
\* target it awaits fails.
C20_OneEnvelopePerSend ==
    [][/\ (SendIsCalled /\ sending' # None) =>
            /\ sending'.envelope = HeldEnvelope
            /\ AllGiven(sending'.broadcasts, HeldEnvelope)
       /\ (sending # None /\ sending.awaiting = "broadcast") =>
            /\ sending' # None =>
                /\ sending'.envelope = sending.envelope
                /\ AllGiven(sending'.broadcasts, sending.envelope)
            /\ (BuildIsCalled \/ SignIsCalled) => sending' = sending
            /\ sending' = None =>
                /\ last'.op = "send"
                /\ AllGiven(last'.broadcasts, sending.envelope)
                /\ last'.threw # None =>
                    /\ last'.threw.message = TransportError
                    /\ sending.committers[sending.index].reply = "throws"]_vars

\* A send to two targets or more has returned an outcome, every target was
\* given the same envelope, and the action holds another payload by now: it
\* was built again while the send was suspended.
C20_Witness ==
    /\ SignedSendToTargets
    /\ last.threw = None
    /\ Len(last.broadcasts) >= 2
    /\ AllGiven(last.broadcasts, last.broadcasts[1].envelope)
    /\ _payload # None
    /\ _payload # last.broadcasts[1].envelope.payload

====
